---- MODULE Spec2Model ----
(***************************************************************************)
(* A model of the is-same crate (the IsSame trait and its implementations) *)
(* and of the is-same-derive crate (the derive(IsSame) procedural macro).  *)
(*                                                                         *)
(* Values are modelled together with what the implementations read from    *)
(* them: a float by its IEEE-754 fields, a pointer-like value by the       *)
(* address it holds and the value found there, a Vec by its buffer address *)
(* and its elements, a map by its entries in iteration order.  A type is a *)
(* descriptor [k |-> kind, p |-> <<parameter types>>]; is_same dispatches   *)
(* on it the way rustc selects the impl from the static type.              *)
(***************************************************************************)
EXTENDS Naturals, Sequences, FiniteSets

VARIABLES
    scn,      \* which group of types the run exercises
    ty,       \* the static type of the two operands
    a, b,     \* the two values the caller holds
    out,      \* the last comparison: its operands and both results
    input,    \* derive: the DeriveInput handed to the macro
    build,    \* derive: what the macro and the compiler made of it
    pc,       \* derive: position in the generated && chain at run time
    visited   \* derive: the fields compared so far, in order

vars == <<scn, ty, a, b, out, input, build, pc, visited>>

\* ------------------------------------------------------------------ bounds
MaxLen == 3       \* longest Vec, slice or array a caller builds
MaxArity == 2     \* widest tuple a caller builds (the crate goes up to 8)
MaxFields == 3    \* most fields of a struct IsSame is derived for
MaxKeyPtr == 4    \* Rc allocations at hand as BTreeMap keys
MaxHashKeys == 2  \* strings at hand as HashMap keys
MaxAddr == 2      \* heap addresses the allocator hands out

\* ------------------------------------------------------------------ types
Ty(k, p) == [k |-> k, p |-> p]
Leaf(k) == Ty(k, <<>>)

\* ------------------------------------------------------------------ floats
\* A float is its IEEE-754 fields: sign, biased exponent, and the fraction
\* as 16-bit limbs, most significant first (the first limb holds the
\* fraction bits that share a 16-bit word with the sign and the exponent).
F32 == [exp_bits |-> 8, frac_limbs |-> 2]
F64 == [exp_bits |-> 11, frac_limbs |-> 4]

RECURSIVE Pow2(_)
Pow2(n) == IF n = 0 THEN 1 ELSE 2 * Pow2(n - 1)

ExpMax(fmt) == Pow2(fmt.exp_bits) - 1
ExpBias(fmt) == Pow2(fmt.exp_bits - 1) - 1
FracZero(fmt) == [i \in 1..fmt.frac_limbs |-> 0]
\* the quiet bit: the top bit of the fraction
FracQuiet(fmt) == [i \in 1..fmt.frac_limbs |->
                     IF i = 1 THEN Pow2(14 - fmt.exp_bits) ELSE 0]
\* the lowest bit of the fraction
FracLow(fmt) == [i \in 1..fmt.frac_limbs |-> IF i = fmt.frac_limbs THEN 1 ELSE 0]

Float(s, e, f) == [sign |-> s, exp |-> e, frac |-> f]
ZERO(fmt) == Float(0, 0, FracZero(fmt))
NEG_ZERO(fmt) == Float(1, 0, FracZero(fmt))
ONE(fmt) == Float(0, ExpBias(fmt), FracZero(fmt))
INFINITY(fmt) == Float(0, ExpMax(fmt), FracZero(fmt))
NEG_INFINITY(fmt) == Float(1, ExpMax(fmt), FracZero(fmt))
NAN(fmt) == Float(0, ExpMax(fmt), FracQuiet(fmt))

Floats(fmt) == { Float(s, e, f) : s \in 0..1,
                 e \in {0, ExpBias(fmt), ExpMax(fmt)},
                 f \in {FracZero(fmt), FracQuiet(fmt), FracLow(fmt)} }

is_nan(fmt, x) == x.exp = ExpMax(fmt) /\ x.frac # FracZero(fmt)
is_zero(fmt, x) == x.exp = 0 /\ x.frac = FracZero(fmt)

\* f32::to_bits / f64::to_bits: the value's bit pattern, as 16-bit words.
to_bits(fmt, x) ==
    << x.sign * Pow2(15) + x.exp * Pow2(15 - fmt.exp_bits) + x.frac[1] >>
    \o Tail(x.frac)

\* PartialEq for floats (IEEE comparison): NaN equals nothing, the two zeros
\* are equal.
float_eq(fmt, x, y) ==
    /\ ~is_nan(fmt, x)
    /\ ~is_nan(fmt, y)
    /\ \/ is_zero(fmt, x) /\ is_zero(fmt, y)
       \/ x = y

f32_is_same_by_value(self, other) == float_eq(F32, self, other)
f32_is_same(self, other) == to_bits(F32, self) = to_bits(F32, other)

f64_is_same_by_value(self, other) == float_eq(F64, self, other)
f64_is_same(self, other) == to_bits(F64, self) = to_bits(F64, other)

\* ------------------------------------------------------------------ scalars
\* simple_impl!: u8 ... isize, bool, char, (), String, str, TypeId
simple_impl(self, other) == self = other

\* PartialEq (==) of the types used as elements and keys.  For Rc and Arc it
\* compares the pointees, not the addresses.
eq(T, x, y) ==
    CASE T.k \in {"Rc", "Arc"} -> x.val = y.val
      [] T.k = "f32" -> float_eq(F32, x, y)
      [] T.k = "f64" -> float_eq(F64, x, y)
      [] OTHER -> x = y

\* ------------------------------------------------------------- the trait
RECURSIVE is_same(_, _, _)

\* The provided method of the trait; no impl of the crate overrides it.
is_not_same_unnegated(T, self, other) == is_same(T, self, other)
is_not_same(T, self, other) == ~is_same(T, self, other)

\* ---------------------------------------------------------------- Rc, Arc
\* A handle is the address of its allocation, with the pointee found there.
Handle(p, v) == [ptr |-> p, val |-> v]
ptr_eq(this, other) == this.ptr = other.ptr

Rc_is_same_by_content(self, other) == self.val = other.val
Rc_is_same(self, other) == ptr_eq(self, other)

Arc_is_same(self, other) == ptr_eq(self, other)

\* ------------------------------------------------------------------- &T
\* A reference is a raw pointer (address, and for an unsized pointee its
\* metadata: the length of a slice) with the pointee found there.
Ref(p, m, v) == [ptr |-> p, meta |-> m, val |-> v]
as_const_ptr(r) == <<r.ptr, r.meta>>

ref_is_same(T, self, other) ==
    IF as_const_ptr(self) = as_const_ptr(other)
    THEN TRUE
    ELSE is_same(T, self.val, other.val)

\* ------------------------------------------------------------------ Cow
Cow(owned, v) == [owned |-> owned, val |-> v]
Cow_is_same(T, self, other) == is_same(T, self.val, other.val)

\* ------------------------------------------------------------------ Vec
\* A Vec is its buffer pointer and its elements.  A Vec that never
\* allocated (no capacity, or elements of size zero) holds the dangling
\* pointer, which is the element type's alignment and no heap address
\* (addresses are compared only for equality: 0 stands for it, 1.. for
\* the heap).
Dangling == 0
size_of(T) == IF T.k \in {"unit"} THEN 0 ELSE 1
Vec(p, es) == [ptr |-> p, elems |-> es]
as_ptr(v) == v.ptr

\* Iterator::zip(..).all(..): stops at the first pair that fails.
RECURSIVE zip_all(_, _, _, _)
zip_all(T, l, r, i) ==
    IF i > Len(l) \/ i > Len(r) THEN TRUE
    ELSE IF ~is_same(T, l[i], r[i]) THEN FALSE
    ELSE zip_all(T, l, r, i + 1)

Vec_is_same(T, self, other) ==
    IF as_ptr(self) = as_ptr(other) THEN TRUE
    ELSE IF Len(self.elems) # Len(other.elems) THEN FALSE
    ELSE zip_all(T, self.elems, other.elems, 1)

\* ------------------------------------------------------- [T] and [T; N]
\* for i in 0..n { if self[i].is_not_same(&other[i]) { return false } } true
RECURSIVE index_loop(_, _, _, _, _)
index_loop(T, l, r, i, n) ==
    IF i > n THEN TRUE
    ELSE IF is_not_same(T, l[i], r[i]) THEN FALSE
    ELSE index_loop(T, l, r, i + 1, n)

slice_is_same(T, self, other) ==
    IF Len(self) # Len(other) THEN FALSE
    ELSE index_loop(T, self, other, 1, Len(self))

\* array_impl!: one impl per length 0..32; both operands have that length.
array_impl(T, self, other) == index_loop(T, self, other, 1, Len(self))

\* ---------------------------------------------------------------- tuples
\* tuple_impl!: $( $left.is_same($right) )&&+ , for 1 to 8 positions
RECURSIVE and_chain(_, _, _, _)
and_chain(Ts, l, r, i) ==
    IF i = Len(Ts) THEN is_same(Ts[i], l[i], r[i])
    ELSE is_same(Ts[i], l[i], r[i]) /\ and_chain(Ts, l, r, i + 1)

tuple_impl(Ts, self, other) == and_chain(Ts, self, other, 1)

\* ------------------------------------------------------ BTreeMap, BTreeSet
\* An ordered map is its entries in ascending key order, which is the order
\* its iterator yields them in.
Entry(k, v) == [key |-> k, val |-> v]

\* Option<..> of Iterator::next at position i
next(it, i) == IF i <= Len(it) THEN <<it[i]>> ELSE <<>>

RECURSIVE BTreeMap_loop_keys_by_is_same(_, _, _, _, _)
BTreeMap_loop_keys_by_is_same(K, V, left, right, i) ==
    LET x == next(left, i)
        y == next(right, i)
    IN  IF x = <<>> /\ y = <<>> THEN TRUE
        ELSE IF x # <<>> /\ y # <<>> /\ is_same(K, x[1].key, y[1].key)
        THEN IF is_not_same(V, x[1].val, y[1].val) THEN FALSE
             ELSE BTreeMap_loop_keys_by_is_same(K, V, left, right, i + 1)
        ELSE FALSE

RECURSIVE BTreeMap_loop(_, _, _, _, _)
BTreeMap_loop(K, V, left, right, i) ==
    LET x == next(left, i)
        y == next(right, i)
    IN  IF x = <<>> /\ y = <<>> THEN TRUE
        ELSE IF x # <<>> /\ y # <<>> /\ eq(K, x[1].key, y[1].key)
        THEN IF is_not_same(V, x[1].val, y[1].val) THEN FALSE
             ELSE BTreeMap_loop(K, V, left, right, i + 1)
        ELSE FALSE

BTreeMap_is_same_keys_by_is_same(K, V, self, other) ==
    BTreeMap_loop_keys_by_is_same(K, V, self, other, 1)
BTreeMap_is_same(K, V, self, other) == BTreeMap_loop(K, V, self, other, 1)

RECURSIVE BTreeSet_loop(_, _, _, _)
BTreeSet_loop(K, left, right, i) ==
    LET x == next(left, i)
        y == next(right, i)
    IN  IF x = <<>> /\ y = <<>> THEN TRUE
        ELSE IF x # <<>> /\ y # <<>> /\ eq(K, x[1], y[1])
        THEN BTreeSet_loop(K, left, right, i + 1)
        ELSE FALSE

BTreeSet_is_same(K, self, other) == BTreeSet_loop(K, self, other, 1)

\* ------------------------------------------------------- HashMap, HashSet
\* A hash map is its entries in the order its iterator yields them (which
\* the hasher and the history of the table decide); keys are distinct.
\* HashMap::get: the value stored under a key equal to k, as an Option
RECURSIVE get(_, _, _, _)
get(K, m, k, i) ==
    IF i > Len(m) THEN <<>>
    ELSE IF eq(K, m[i].key, k) THEN <<m[i].val>>
    ELSE get(K, m, k, i + 1)

RECURSIVE HashMap_loop(_, _, _, _, _)
HashMap_loop(K, V, self, other, i) ==
    IF i > Len(self) THEN TRUE
    ELSE LET found == get(K, other, self[i].key, 1)
         IN  IF found # <<>>
             THEN IF is_not_same(V, self[i].val, found[1]) THEN FALSE
                  ELSE HashMap_loop(K, V, self, other, i + 1)
             ELSE FALSE

HashMap_is_same_no_len_check(K, V, self, other) ==
    HashMap_loop(K, V, self, other, 1)
HashMap_is_same(K, V, self, other) ==
    IF Len(self) # Len(other) THEN FALSE
    ELSE HashMap_loop(K, V, self, other, 1)

\* HashSet's PartialEq: equal sizes and every key of self contained in other
HashSet_is_same(self, other) ==
    /\ Cardinality(self) = Cardinality(other)
    /\ \A k \in self : k \in other

\* ------------------------------------------------------- derive(IsSame)
\* The macro's input: the kind of item, the kind of field list, and the
\* members (the field names of a named struct, the types of a tuple struct).
DeriveInput(data, fields, members) ==
    [data |-> data, fields |-> fields, members |-> members]

FieldNames == <<"foo", "bar", "baz", "qux", "quux">>
\* syn::Index::from(i): the literal a positional field is accessed by
IndexFrom(i) == <<"0", "1", "2", "3", "4">>[i + 1]

\* Tokens of the generated body: a call of IsSame::is_same on member m of
\* self and of other, the operator &&, the literal true.
Call(m) == [t |-> "is_same", m |-> m]
AndAnd == [t |-> "&&", m |-> ""]
True == [t |-> "true", m |-> ""]

\* quote!( #(#fields)&&* ): the items separated by &&; nothing for no items
RECURSIVE separated(_, _)
separated(items, i) ==
    IF i > Len(items) THEN <<>>
    ELSE IF i = Len(items) THEN <<items[i]>>
    ELSE <<items[i], AndAnd>> \o separated(items, i + 1)

\* What the macro returns: the tokens of an impl whose is_same has the
\* given body, or a panic.
derive_is_same_any_item(inp) ==
    [panic |-> FALSE, body |-> <<True>>]
derive_is_same_reversed(inp) ==
    IF inp.data = "Struct"
    THEN LET n == Len(inp.members)
             fields ==
               CASE inp.fields = "Named" ->
                      separated([i \in 1..n |-> Call(inp.members[n + 1 - i])], 1)
                 [] inp.fields = "Unnamed" ->
                      separated([i \in 1..n |-> Call(IndexFrom(n - i))], 1)
                 [] inp.fields = "Unit" -> <<True>>
         IN  [panic |-> FALSE, body |-> fields]
    ELSE [panic |-> TRUE, body |-> <<>>]
derive_is_same(inp) ==
    IF inp.data = "Struct"
    THEN LET fields ==
               CASE inp.fields = "Named" ->
                      separated([i \in 1..Len(inp.members) |->
                                   Call(inp.members[i])], 1)
                 [] inp.fields = "Unnamed" ->
                      separated([i \in 1..Len(inp.members) |->
                                   Call(IndexFrom(i - 1))], 1)
                 [] inp.fields = "Unit" -> <<True>>
         IN  [panic |-> FALSE, body |-> fields]
    ELSE [panic |-> TRUE, body |-> <<>>]

\* The compiler on `fn is_same(&self, other: &Self) -> bool { body }`: an
\* empty block has type (), not bool.
body_type_checks(body) == body # <<>>

\* The members a struct value has fields for
members_of(inp) ==
    CASE inp.fields = "Named" -> inp.members
      [] inp.fields = "Unnamed" -> [i \in 1..Len(inp.members) |-> IndexFrom(i - 1)]
      [] OTHER -> <<>>

\* The type of every field of the structs derived for
FieldTy == Leaf("u8")

\* The value of a generated body on two struct values: && evaluates its
\* right operand only when the left one is true.
RECURSIVE eval_body(_, _, _, _)
eval_body(body, self, other, i) ==
    LET term == IF body[i].t = "true" THEN TRUE
                ELSE is_same(FieldTy, self[body[i].m], other[body[i].m])
    IN  IF i = Len(body) THEN term
        ELSE IF ~term THEN FALSE
        ELSE eval_body(body, self, other, i + 2)

Derived(body) == [k |-> "derived", p |-> <<>>, body |-> body]

\* ----------------------------------------------------- static dispatch
is_same(T, self, other) ==
    CASE T.k \in {"u8", "unit", "String"} -> simple_impl(self, other)
      [] T.k = "f32" -> f32_is_same(self, other)
      [] T.k = "f64" -> f64_is_same(self, other)
      [] T.k = "Rc" -> Rc_is_same(self, other)
      [] T.k = "Arc" -> Arc_is_same(self, other)
      [] T.k = "ref" -> ref_is_same(T.p[1], self, other)
      [] T.k = "Cow" -> Cow_is_same(T.p[1], self, other)
      [] T.k = "Vec" -> Vec_is_same(T.p[1], self, other)
      [] T.k = "slice" -> slice_is_same(T.p[1], self, other)
      [] T.k = "array" -> array_impl(T.p[1], self, other)
      [] T.k = "tuple" -> tuple_impl(T.p, self, other)
      [] T.k = "BTreeMap" -> BTreeMap_is_same(T.p[1], T.p[2], self, other)
      [] T.k = "BTreeSet" -> BTreeSet_is_same(T.p[1], self, other)
      [] T.k = "HashMap" -> HashMap_is_same(T.p[1], T.p[2], self, other)
      [] T.k = "HashSet" -> HashSet_is_same(self, other)
      [] T.k = "derived" -> eval_body(T.body, self, other, 1)

\* One comparison by a caller: both methods of the trait on the same pair.
NoCall == [op |-> "none"]
Cmp(T, x, y) ==
    [op |-> "cmp", T |-> T, x |-> x, y |-> y,
     same |-> is_same(T, x, y), not_same |-> is_not_same(T, x, y)]

\* ================================================================ state
Slots == {"a", "b"}
Get(slot) == IF slot = "a" THEN a ELSE b
Other(slot) == IF slot = "a" THEN b ELSE a
Put(slot, v) == IF slot = "a" THEN a' = v /\ b' = b ELSE b' = v /\ a' = a

NoInput == DeriveInput("None", "None", <<>>)
NoBuild == [stage |-> "none", body |-> <<>>]
NoDerive == input = NoInput /\ build = NoBuild /\ pc = 0 /\ visited = <<>>
DeriveIdle == UNCHANGED <<input, build, pc, visited>>

\* A caller compares two of the values it holds, in either order, or one
\* of them with itself.
Compare ==
    /\ scn # "derive"
    /\ out = NoCall
    /\ \E x \in {a, b}, y \in {a, b} : out' = Cmp(ty, x, y)
    /\ UNCHANGED <<scn, ty, a, b>>
    /\ DeriveIdle

\* The caller is done with the result of the comparison.
Discard ==
    /\ scn # "derive"
    /\ out # NoCall
    /\ out' = NoCall
    /\ UNCHANGED <<scn, ty, a, b>>
    /\ DeriveIdle

\* Every other step of a caller changes one of its values.
Mutate(s) ==
    /\ scn = s
    /\ out = NoCall
    /\ UNCHANGED <<scn, ty, out>>
    /\ DeriveIdle

\* ------------------------------------------------------- f32 and f64
FloatFormat(T) == IF T.k = "f32" THEN F32 ELSE F64

InitFloat ==
    /\ scn = "float"
    /\ ty \in {Leaf("f32"), Leaf("f64")}
    /\ a \in Floats(FloatFormat(ty))
    /\ b \in Floats(FloatFormat(ty))
    /\ out = NoCall
    /\ NoDerive

\* b = -b
FloatNeg ==
    /\ Mutate("float")
    /\ \E slot \in Slots : Put(slot, [Get(slot) EXCEPT !.sign = 1 - @])

NextFloat == Compare \/ Discard \/ FloatNeg

\* ---------------------------------------------- scalars, String, Cow
Values(T) ==
    CASE T.k = "u8" -> 0..2
      [] T.k = "unit" -> {<<>>}
      [] T.k = "String" -> {"foo", "bar"}
      [] T.k = "Cow" -> {Cow(o, v) : o \in BOOLEAN, v \in {"foo", "bar"}}
      [] T.k = "f32" -> {ONE(F32), NAN(F32)}

InitSimple ==
    /\ scn = "simple"
    /\ ty \in {Leaf("u8"), Leaf("unit"), Leaf("String"),
               Ty("Cow", <<Leaf("String")>>)}
    /\ a \in Values(ty)
    /\ b \in Values(ty)
    /\ out = NoCall
    /\ NoDerive

Assign ==
    /\ Mutate("simple")
    /\ \E slot \in Slots, v \in Values(ty) : Put(slot, v)

NextSimple == Compare \/ Discard \/ Assign

\* ------------------------------------------------------------ Rc, Arc
Addrs == 1..MaxAddr
Pointees == 3..5

InitRc ==
    /\ scn = "rc"
    /\ ty \in {Ty("Rc", <<Leaf("u8")>>), Ty("Arc", <<Leaf("u8")>>)}
    /\ \E v \in Pointees, w \in Pointees :
         a = Handle(1, v) /\ b = Handle(2, w)
    /\ out = NoCall
    /\ NoDerive

\* slot = Rc::new(v): a new allocation, at an address no live one has
RcNew ==
    /\ Mutate("rc")
    /\ \E slot \in Slots, v \in Pointees :
         \E p \in Addrs \ {Other(slot).ptr} : Put(slot, Handle(p, v))

\* slot = other.clone(): the same allocation
RcClone ==
    /\ Mutate("rc")
    /\ \E slot \in Slots : Put(slot, Other(slot))

NextRc == Compare \/ Discard \/ RcNew \/ RcClone

\* ------------------------------------------------------------------ &T
InitRef ==
    /\ scn = "ref"
    /\ ty = Ty("ref", <<Leaf("f32")>>)
    /\ \E m \in [Addrs -> {ONE(F32), NAN(F32), ZERO(F32), NEG_ZERO(F32)}],
          pa \in Addrs, pb \in Addrs :
         a = Ref(pa, 0, m[pa]) /\ b = Ref(pb, 0, m[pb])
    /\ out = NoCall
    /\ NoDerive

\* slot = other: a copy of the reference
RefCopy ==
    /\ Mutate("ref")
    /\ \E slot \in Slots : Put(slot, Other(slot))

NextRef == Compare \/ Discard \/ RefCopy

\* ------------------------------------------------------- Vec and slices
Elems(T) == IF T.k = "unit" THEN {<<>>} ELSE 1..2

InitVec ==
    /\ scn = "vec"
    /\ ty \in {Ty("Vec", <<Leaf("u8")>>), Ty("Vec", <<Leaf("unit")>>)}
    /\ a = Vec(Dangling, <<>>)
    /\ b = Vec(Dangling, <<>>)
    /\ out = NoCall
    /\ NoDerive

\* The buffer addresses a Vec can have after growing: none but the
\* dangling pointer for elements of size zero, else any heap address that
\* is not the other Vec's buffer.
Buffers(T, other) ==
    IF size_of(T) = 0 THEN {Dangling} ELSE Addrs \ {other.ptr}

VecPush ==
    /\ Mutate("vec")
    /\ \E slot \in Slots, e \in Elems(ty.p[1]) :
         \E p \in Buffers(ty.p[1], Other(slot)) :
           /\ Len(Get(slot).elems) < MaxLen
           /\ Put(slot, Vec(p, Append(Get(slot).elems, e)))

VecPop ==
    /\ Mutate("vec")
    /\ \E slot \in Slots :
         LET v == Get(slot)
         IN  /\ Len(v.elems) > 0
             /\ Put(slot, Vec(v.ptr, SubSeq(v.elems, 1, Len(v.elems) - 1)))

VecSwap ==
    /\ Mutate("vec")
    /\ \E slot \in Slots :
         LET v == Get(slot)
         IN  \E i \in 1..Len(v.elems), j \in 1..Len(v.elems) :
               /\ i < j
               /\ Put(slot, Vec(v.ptr, [v.elems EXCEPT ![i] = v.elems[j],
                                                       ![j] = v.elems[i]]))

\* &v[..n]: a slice reference into the buffer of v
SliceOf(v, n) == Ref(v.ptr, n, SubSeq(v.elems, 1, n))

\* A caller compares a prefix of one Vec with the whole of one, as slices.

CompareSlices ==
    /\ scn = "vec"
    /\ out = NoCall
    /\ \E x \in {a, b}, y \in {a, b} :
         \E n \in 0..Len(x.elems) :
           out' = Cmp(Ty("ref", <<Ty("slice", ty.p)>>),
                      SliceOf(x, n), SliceOf(y, Len(y.elems)))
    /\ UNCHANGED <<scn, ty, a, b>>
    /\ DeriveIdle

NextVec == Compare \/ Discard \/ CompareSlices \/ VecPush \/ VecPop \/ VecSwap

\* ------------------------------------------------------ tuples, arrays
ElemTypes == {Leaf("u8"), Leaf("f32")}

RECURSIVE TupleTypes(_)
TupleTypes(n) ==
    IF n = 0 THEN {<<>>}
    ELSE {Append(Ts, T) : Ts \in TupleTypes(n - 1), T \in ElemTypes}

\* The values of a tuple type (one type per position) or of an array type
RECURSIVE TupleValues(_)
TupleValues(Ts) ==
    IF Ts = <<>> THEN {<<>>}
    ELSE {<<v>> \o t : v \in Values(Head(Ts)), t \in TupleValues(Tail(Ts))}
ArrayValues(T, n) == [1..n -> Values(T)]

ElemType(T, i) == IF T.k = "tuple" THEN T.p[i] ELSE T.p[1]

InitProduct ==
    /\ scn = "product"
    /\ \/ \E n \in 1..MaxArity : \E Ts \in TupleTypes(n) :
            /\ ty = Ty("tuple", Ts)
            /\ a \in TupleValues(Ts)
            /\ b \in TupleValues(Ts)
       \/ \E n \in 0..MaxLen, T \in ElemTypes :
            /\ ty = Ty("array", <<T>>)
            /\ a \in ArrayValues(T, n)
            /\ b \in ArrayValues(T, n)
    /\ out = NoCall
    /\ NoDerive

\* slot.i = v
SetElem ==
    /\ Mutate("product")
    /\ \E slot \in Slots :
         \E i \in 1..Len(Get(slot)) :
           \E v \in Values(ElemType(ty, i)) :
             Put(slot, [Get(slot) EXCEPT ![i] = v])

NextProduct == Compare \/ Discard \/ SetElem

\* ----------------------------------------------------- BTreeMap, BTreeSet
\* The keys are Rc<u8> handles: the first two allocations hold the same
\* number, so keys can be equal without being the same allocation.
KeyPool == {Handle(p, IF p = 1 THEN 1 ELSE p - 1) : p \in 1..MaxKeyPtr}
KeyTy == Ty("Rc", <<Leaf("u8")>>)
ValTy == Leaf("f32")

\* Ord of the key type (Rc<T> orders by its pointee)
lt(K, x, y) == IF K.k \in {"Rc", "Arc"} THEN x.val < y.val ELSE x < y

KeyOf(T, e) == IF T.k = "BTreeMap" THEN e.key ELSE e

\* Where the key is in the tree, or 0
Find(T, m, k) ==
    IF \E i \in 1..Len(m) : eq(T.p[1], KeyOf(T, m[i]), k)
    THEN CHOOSE i \in 1..Len(m) : eq(T.p[1], KeyOf(T, m[i]), k)
    ELSE 0

\* The tree with item e added in key order
Place(T, m, e) ==
    LET n == Cardinality({i \in 1..Len(m) :
                            lt(T.p[1], KeyOf(T, m[i]), KeyOf(T, e))})
    IN  SubSeq(m, 1, n) \o <<e>> \o SubSeq(m, n + 1, Len(m))

\* BTreeMap::insert: a present key keeps its entry and gets the new value
BTreeMap_insert(T, m, k, v) ==
    LET i == Find(T, m, k)
    IN  IF i > 0 THEN [m EXCEPT ![i].val = v] ELSE Place(T, m, Entry(k, v))

\* BTreeSet::insert: a present key stays as it is
BTreeSet_insert(T, m, k) ==
    IF Find(T, m, k) > 0 THEN m ELSE Place(T, m, k)

BTree_remove(T, m, k) ==
    LET i == Find(T, m, k)
    IN  IF i > 0 THEN SubSeq(m, 1, i - 1) \o SubSeq(m, i + 1, Len(m)) ELSE m

InitBTree ==
    /\ scn = "btree"
    /\ ty \in {Ty("BTreeMap", <<KeyTy, ValTy>>), Ty("BTreeSet", <<KeyTy>>)}
    /\ a = <<>>
    /\ b = <<>>
    /\ out = NoCall
    /\ NoDerive

BTreeMapInsert ==
    /\ Mutate("btree")
    /\ ty.k = "BTreeMap"
    /\ \E slot \in Slots, k \in KeyPool, v \in Values(ValTy) :
         Put(slot, BTreeMap_insert(ty, Get(slot), k, v))

BTreeSetInsert ==
    /\ Mutate("btree")
    /\ ty.k = "BTreeSet"
    /\ \E slot \in Slots, k \in KeyPool :
         Put(slot, BTreeSet_insert(ty, Get(slot), k))

BTreeRemove ==
    /\ Mutate("btree")
    /\ \E slot \in Slots, k \in KeyPool :
         /\ Find(ty, Get(slot), k) > 0
         /\ Put(slot, BTree_remove(ty, Get(slot), k))

NextBTree == Compare \/ Discard \/ BTreeMapInsert \/ BTreeSetInsert \/ BTreeRemove

\* ------------------------------------------------------- HashMap, HashSet
HashKeys == {<<"foo", "bar", "baz", "qux">>[i] : i \in 1..MaxHashKeys}
HashKeyTy == Leaf("String")

\* The sequences that hold the items of s in some other order
Reordered(s) ==
    {t \in [1..Len(s) -> {s[i] : i \in 1..Len(s)}] :
       \A i \in 1..Len(s) : \E j \in 1..Len(s) : t[j] = s[i]}

HashFind(m, k) ==
    IF \E i \in 1..Len(m) : eq(HashKeyTy, m[i].key, k)
    THEN CHOOSE i \in 1..Len(m) : eq(HashKeyTy, m[i].key, k)
    ELSE 0

InitHash ==
    /\ scn = "hash"
    /\ \/ /\ ty = Ty("HashMap", <<HashKeyTy, ValTy>>)
          /\ a = <<>>
          /\ b = <<>>
       \/ /\ ty = Ty("HashSet", <<HashKeyTy>>)
          /\ a = {}
          /\ b = {}
    /\ out = NoCall
    /\ NoDerive

\* HashMap::insert: a present key gets the new value where it is; a new key
\* may grow the table, which leaves the entries in any order.
HashMapInsert ==
    /\ Mutate("hash")
    /\ ty.k = "HashMap"
    /\ \E slot \in Slots, k \in HashKeys, v \in Values(ValTy) :
         LET m == Get(slot)
             i == HashFind(m, k)
         IN  IF i > 0
             THEN Put(slot, [m EXCEPT ![i].val = v])
             ELSE \E t \in Reordered(Append(m, Entry(k, v))) : Put(slot, t)

HashMapRemove ==
    /\ Mutate("hash")
    /\ ty.k = "HashMap"
    /\ \E slot \in Slots, k \in HashKeys :
         LET m == Get(slot)
             i == HashFind(m, k)
         IN  /\ i > 0
             /\ Put(slot, SubSeq(m, 1, i - 1) \o SubSeq(m, i + 1, Len(m)))

HashSetInsert ==
    /\ Mutate("hash")
    /\ ty.k = "HashSet"
    /\ \E slot \in Slots, k \in HashKeys : Put(slot, Get(slot) \cup {k})

HashSetRemove ==
    /\ Mutate("hash")
    /\ ty.k = "HashSet"
    /\ \E slot \in Slots, k \in HashKeys :
         /\ k \in Get(slot)
         /\ Put(slot, Get(slot) \ {k})

NextHash ==
    Compare \/ Discard \/ HashMapInsert \/ HashMapRemove \/ HashSetInsert \/ HashSetRemove

\* --------------------------------------------------------- derive(IsSame)
Shapes ==
    {DeriveInput("Struct", "Named", SubSeq(FieldNames, 1, n)) : n \in 0..MaxFields}
    \cup {DeriveInput("Struct", "Unnamed", [i \in 1..n |-> "u8"]) : n \in 0..MaxFields}
    \cup {DeriveInput("Struct", "Unit", <<>>),
          DeriveInput("Enum", "None", <<>>),
          DeriveInput("Union", "None", <<>>)}

StructValues(ms) == [{ms[i] : i \in 1..Len(ms)} -> 0..1]

InitDerive ==
    /\ scn = "derive"
    /\ input \in Shapes
    /\ build = [stage |-> "source", body |-> <<>>]
    /\ ty = Leaf("none")
    /\ a = <<>>
    /\ b = <<>>
    /\ out = NoCall
    /\ pc = 0
    /\ visited = <<>>

\* The compiler expands #[derive(IsSame)]: the macro returns the impl, or
\* panics, which is a compile error.
Expand ==
    /\ scn = "derive"
    /\ build.stage = "source"
    /\ LET r == derive_is_same(input)
       IN  build' = IF r.panic
                    THEN [stage |-> "panicked", body |-> <<>>]
                    ELSE [stage |-> "expanded", body |-> r.body]
    /\ UNCHANGED <<scn, ty, a, b, out, input, pc, visited>>

\* The compiler checks the impl the macro returned.
TypeCheck ==
    /\ scn = "derive"
    /\ build.stage = "expanded"
    /\ IF body_type_checks(build.body)
       THEN build' = [build EXCEPT !.stage = "compiled"] /\ ty' = Derived(build.body)
       ELSE build' = [build EXCEPT !.stage = "rejected"] /\ ty' = ty
    /\ UNCHANGED <<scn, a, b, out, input, pc, visited>>

\* Run time: a caller calls left.is_same(&right) on two values of the struct.
CallIsSame ==
    /\ scn = "derive"
    /\ build.stage = "compiled"
    /\ pc = 0
    /\ \E x \in StructValues(members_of(input)),
          y \in StructValues(members_of(input)) :
         a' = x /\ b' = y
    /\ pc' = 1
    /\ visited' = <<>>
    /\ out' = NoCall
    /\ UNCHANGED <<scn, ty, input, build>>

Return(r) ==
    /\ pc' = 0
    /\ out' = [op |-> "cmp", T |-> ty, x |-> a, y |-> b,
               same |-> r, not_same |-> is_not_same(ty, a, b)]

\* One step of the generated body: a field comparison, the literal, or an
\* && whose left operand was true.
Step ==
    /\ scn = "derive"
    /\ pc > 0
    /\ LET tok == build.body[pc]
       IN  CASE tok.t = "true" -> Return(TRUE) /\ visited' = visited
             [] tok.t = "&&" -> pc' = pc + 1 /\ UNCHANGED <<out, visited>>
             [] tok.t = "is_same" ->
                  LET r == is_same(FieldTy, a[tok.m], b[tok.m])
                  IN  /\ visited' = Append(visited, tok.m)
                      /\ IF ~r THEN Return(FALSE)
                         ELSE IF pc = Len(build.body) THEN Return(TRUE)
                         ELSE pc' = pc + 1 /\ out' = out
    /\ UNCHANGED <<scn, ty, a, b, input, build>>

NextDerive == Expand \/ TypeCheck \/ CallIsSame \/ Step

\* ================================================================= specs
Init ==
    \/ InitFloat
    \/ InitSimple
    \/ InitRc
    \/ InitRef
    \/ InitVec
    \/ InitProduct
    \/ InitBTree
    \/ InitHash
    \/ InitDerive

Next ==
    \/ Compare
    \/ Discard
    \/ FloatNeg
    \/ Assign
    \/ RcNew
    \/ RcClone
    \/ RefCopy
    \/ CompareSlices
    \/ VecPush
    \/ VecPop
    \/ VecSwap
    \/ SetElem
    \/ BTreeMapInsert
    \/ BTreeSetInsert
    \/ BTreeRemove
    \/ HashMapInsert
    \/ HashMapRemove
    \/ HashSetInsert
    \/ HashSetRemove
    \/ Expand
    \/ TypeCheck
    \/ CallIsSame
    \/ Step

Spec == Init /\ [][Next]_vars
SpecFloat == InitFloat /\ [][NextFloat]_vars
SpecRc == InitRc /\ [][NextRc]_vars
SpecVec == InitVec /\ [][NextVec]_vars
SpecBTree == InitBTree /\ [][NextBTree]_vars
SpecHash == InitHash /\ [][NextHash]_vars
SpecDerive == InitDerive /\ [][NextDerive]_vars

\* =============================================================== claims
Called == out.op = "cmp"
SameBits(x, y) == x.sign = y.sign /\ x.exp = y.exp /\ x.frac = y.frac

\* C1: for f32 and f64, is_same(a, b) is true exactly when a and b have the
\* identical bit pattern (the same sign, exponent and fraction bits): a NaN
\* is same as an identical copy of itself, two NaNs with different bits are
\* not same, +0.0 and -0.0 are not same, +infinity and -infinity are not
\* same.
C1_FloatBitPattern ==
    (scn = "float" /\ Called) =>
        LET fmt == FloatFormat(out.T)
            x == out.x
            y == out.y
        IN  /\ out.same = SameBits(x, y)
            /\ (is_nan(fmt, x) /\ x = y) => out.same
            /\ (is_nan(fmt, x) /\ is_nan(fmt, y) /\ x # y) => ~out.same
            /\ (x = ZERO(fmt) /\ y = NEG_ZERO(fmt)) => ~out.same
            /\ (x = INFINITY(fmt) /\ y = NEG_INFINITY(fmt)) => ~out.same

\* A NaN was compared with a copy of itself and found same, although == on
\* the two is false.
C1_Witness ==
    /\ scn = "float"
    /\ Called
    /\ is_nan(FloatFormat(out.T), out.x)
    /\ out.x = out.y
    /\ ~float_eq(FloatFormat(out.T), out.x, out.y)
    /\ out.same

\* C2: for Rc and Arc, is_same(a, b) is true exactly when the two handles
\* refer to the same allocation, whatever the pointees are: a handle and its
\* clone are same, two separately allocated handles are not same even when
\* their contents are equal.
C2_SharedHandleIdentity ==
    (scn = "rc" /\ Called) =>
        /\ out.same = (out.x.ptr = out.y.ptr)
        /\ (out.x.ptr # out.y.ptr /\ out.x.val = out.y.val) => ~out.same

\* Two separate allocations holding the same number were found not same.
C2_Witness ==
    /\ scn = "rc"
    /\ Called
    /\ out.x.ptr # out.y.ptr
    /\ out.x.val = out.y.val
    /\ ~out.same

\* The elements of a compared Vec or slice reference
Items(T, v) == IF T.k = "Vec" THEN v.elems ELSE v.val

\* C3: for Vec and for slices, is_same(a, b) is false whenever the lengths
\* differ, for every element type (also one of size zero) and whatever the
\* buffer addresses are; with equal lengths the result is the conjunction
\* of the element-wise is_same.
C3_LengthsDecide ==
    (scn = "vec" /\ Called) =>
        LET l == Items(out.T, out.x)
            r == Items(out.T, out.y)
        IN  IF Len(l) # Len(r) THEN ~out.same
            ELSE out.same = \A i \in 1..Len(l) : l[i] = r[i]

\* C4: is_same is reflexive for every type shape: a value compared with
\* itself is same; and where Vec and & answer from the pointers alone, the
\* answer is the one the element-wise comparison of the value with itself
\* gives.
C4_Reflexive ==
    (Called /\ out.x = out.y) =>
        /\ out.same
        /\ out.T.k = "Vec" =>
             out.same = zip_all(out.T.p[1], out.x.elems, out.y.elems, 1)
        /\ out.T.k = "ref" =>
             out.same = is_same(out.T.p[1], out.x.val, out.y.val)

\* A reference to a NaN was compared with itself and found same.
C4_Witness ==
    /\ scn = "ref"
    /\ Called
    /\ out.x = out.y
    /\ is_nan(F32, out.x.val)
    /\ out.same

\* C5: for HashMap, is_same(a, b) is true exactly when the sizes are equal
\* and every key of a is in b with a value that is same as a's; the order
\* of the entries plays no part, and the arguments can be swapped.
C5_HashMapContent ==
    (scn = "hash" /\ Called /\ out.T.k = "HashMap") =>
        LET x == out.x
            y == out.y
        IN  out.same =
              /\ Len(x) = Len(y)
              /\ \A i \in 1..Len(x) : \E j \in 1..Len(y) :
                   /\ y[j].key = x[i].key
                   /\ SameBits(x[i].val, y[j].val)

\* The second map holds every entry of the first and one key more, and the
\* two were found not same.
C5_Witness ==
    /\ scn = "hash"
    /\ Called
    /\ out.T.k = "HashMap"
    /\ Len(out.x) >= 1
    /\ Len(out.y) > Len(out.x)
    /\ \A i \in 1..Len(out.x) : \E j \in 1..Len(out.y) : out.y[j] = out.x[i]
    /\ ~out.same

\* C6: for BTreeMap, is_same(a, b) is true exactly when both have the same
\* number of entries and, taken in ascending key order, the keys at every
\* position are equal under the key type's == (for Rc keys: equal pointees,
\* same allocation or not) and the values are same.
C6_BTreeMapPositional ==
    (scn = "btree" /\ Called /\ out.T.k = "BTreeMap") =>
        LET x == out.x
            y == out.y
        IN  /\ \A i \in 1..Len(x), j \in 1..Len(x) :
                 i < j => x[i].key.val < x[j].key.val
            /\ out.same =
                 /\ Len(x) = Len(y)
                 /\ \A i \in 1..Len(x) :
                      /\ x[i].key.val = y[i].key.val
                      /\ SameBits(x[i].val, y[i].val)

\* Two maps of two entries were found same although one key of the first
\* is another allocation than the equal key of the second.
C6_Witness ==
    /\ scn = "btree"
    /\ Called
    /\ out.T.k = "BTreeMap"
    /\ Len(out.x) = 2
    /\ Len(out.y) = 2
    /\ \E i \in 1..Len(out.x) : out.x[i].key.ptr # out.y[i].key.ptr
    /\ out.same

\* C7: for every type shape, is_not_same(x, y) is the negation of
\* is_same(x, y).
C7_Negation == Called => (out.not_same = ~out.same)

\* Two tuples were compared and is_not_same answered true.
C7_Witness ==
    /\ Called
    /\ out.T.k = "tuple"
    /\ out.not_same
    /\ ~out.same

\* The fields of the struct derived for, in declaration order
Members == members_of(input)
FieldSame(i) == a[Members[i]] = b[Members[i]]
\* The first field that is not same, or the last field
Decisive == IF \E i \in 1..Len(Members) : ~FieldSame(i)
            THEN CHOOSE i \in 1..Len(Members) :
                   ~FieldSame(i) /\ \A j \in 1..(i - 1) : FieldSame(j)
            ELSE Len(Members)

\* C8: the is_same derived for a struct with named or positional fields is
\* the conjunction of is_same over the fields in declaration order, and it
\* stops at the first field that is not same: the fields compared are those
\* up to and including that one, each once, in order.
C8_FieldwiseShortCircuit ==
    (scn = "derive" /\ input.fields \in {"Named", "Unnamed"}
       /\ Len(Members) > 0) =>
        /\ (pc > 0) =>
             /\ Len(visited) <= Decisive
             /\ visited = SubSeq(Members, 1, Len(visited))
        /\ Called =>
             /\ out.same = \A i \in 1..Len(Members) : FieldSame(i)
             /\ visited = SubSeq(Members, 1, Decisive)

\* A struct of three named fields whose first field is same and whose
\* second and third differ was found not same after two comparisons.
C8_Witness ==
    /\ scn = "derive"
    /\ Called
    /\ input.fields = "Named"
    /\ Len(Members) = 3
    /\ FieldSame(1) /\ ~FieldSame(2) /\ ~FieldSame(3)
    /\ visited = SubSeq(Members, 1, 2)
    /\ ~out.same

\* C9: for every struct without fields (unit, empty braces, empty
\* parentheses) the derive emits an is_same whose body is `true`, so the
\* impl compiles and any two instances are same.
C9_FieldlessIsTrue ==
    (scn = "derive" /\ input.data = "Struct" /\ Len(input.members) = 0
       /\ build.stage # "source") =>
        /\ build.body = <<True>>
        /\ build.stage \in {"expanded", "compiled"}
        /\ Called => out.same

\* C10: on an item that is not a struct the derive fails the build and
\* emits no impl: nothing is compiled and nothing can be called.
C10_NonStructFails ==
    (scn = "derive" /\ input.data # "Struct") =>
        /\ build.stage \in {"source", "panicked"}
        /\ build.body = <<>>
        /\ ty.k = "none"
        /\ pc = 0
        /\ out = NoCall

\* The derive ran on an enum and panicked.
C10_Witness ==
    /\ scn = "derive"
    /\ input.data = "Enum"
    /\ build.stage = "panicked"

====
